---------------------------- MODULE Spec2Model ----------------------------
(***************************************************************************)
(* A model of micrograd_rust: the scalar reverse-mode autodiff node        *)
(* (src/src/value.rs) and the neuron / layer / MLP composition on top of   *)
(* it (src/src/neuron.rs, layer.rs, mlp.rs, tests/simple_model_test.rs).   *)
(*                                                                         *)
(* The heap of Rc<RefCell<InnerValue>> cells is the sequence `nodes`; a    *)
(* Value (an Rc handle) is an index into it, so Rc::ptr_eq is equality of  *)
(* indices and PartialEq is equality of the data fields.                   *)
(*                                                                         *)
(* f32 is modelled by exact arithmetic: the prime field of P elements,     *)
(* written with the representatives -(P-1)/2 .. (P-1)/2.  Sums and         *)
(* products of small integers are the integers themselves (2 * 2 = 4),     *)
(* every x # 0 has a reciprocal (powf(-1.0)), and the values never grow.   *)
(* Rounding, infinities and NaN are outside the model: the actions are     *)
(* guarded so that no reciprocal of 0 is ever taken.                       *)
(***************************************************************************)
EXTENDS Integers, Sequences, FiniteSets, TLC

(***************************************************************************)
(* The carrier of f32.  P is a prime with P % 3 = 2 and P % 4 = 3, so that *)
(* FExp never yields 0 and the denominator of tanh is never 0.             *)
(***************************************************************************)
P == 10007

Half == (P - 1) \div 2

\* the representative of x in -(P-1)/2 .. (P-1)/2
Norm(x) == LET r == x % P IN IF r > Half THEN r - P ELSE r

FAdd(x, y) == Norm(x + y)

FMul(x, y) == Norm(x * y)

\* x^n for a natural number n, by squaring
RECURSIVE FPowNat(_, _)
FPowNat(x, n) ==
    IF n = 0 THEN 1
    ELSE LET h == FPowNat(x, n \div 2)
             s == FMul(h, h)
         IN IF n % 2 = 1 THEN FMul(s, x) ELSE s

\* x * y, both in 0 .. P-1
MulP(x, y) == (x * y) % P

\* x * x
SqP(x) == MulP(x, x)

\* 1/x (x # 0) is x^(P-2), and P - 2 = 8192 + 1024 + 512 + 256 + 16 + 4 + 1:
\* the powers x^2, x^4, ... by squaring, then the product of those seven
FInv(x) ==
    LET x1 == x % P
        x2 == SqP(x1)
        x4 == SqP(x2)
        x8 == SqP(x4)
        x16 == SqP(x8)
        x32 == SqP(x16)
        x64 == SqP(x32)
        x128 == SqP(x64)
        x256 == SqP(x128)
        x512 == SqP(x256)
        x1024 == SqP(x512)
        x2048 == SqP(x1024)
        x4096 == SqP(x2048)
        x8192 == SqP(x4096)
        m1 == MulP(x8192, x1024)
        m2 == MulP(m1, x512)
        m3 == MulP(m2, x256)
        m4 == MulP(m3, x16)
        m5 == MulP(m4, x4)
        m6 == MulP(m5, x1)
    IN <<x1, x2, x4, x8, x16, x32, x64, x128, x256, x512, x1024, x2048,
         x4096, x8192, m1, m2, m3, m4, m5, Norm(m6)>>[20]

\* f32::powf for the integer exponents the program uses
FPow(x, p) == IF p >= 0 THEN FPowNat(x, p) ELSE FInv(FPowNat(x, -p))

\* f32::exp, as its Taylor polynomial of degree 2: 1 + x + x^2/2
FExp(x) == FAdd(FAdd(1, x), FMul(FInv(2), FMul(x, x)))

\* the learning rate -0.06 of the training loop, as the field element -3/50
LearningRate == FMul(-3, FInv(50))

(***************************************************************************)
(* Bounds of the model.                                                    *)
(***************************************************************************)
MaxLeaves == 2
MaxOps == 2
MaxBackward == 2
MaxSets == 2
MaxIn == 2
MaxIters == 2
MaxSamples == 2

\* data the client gives to Value::new
LeafVals == {-3, 1, 2}
\* bare f32 operands of the mixed operators (a * 2.0, a - 1.0)
Scalars == {2}
\* exponents given to powf
PowExps == {-1, 2}
\* gradients the client writes with set_grad
GradVals == {0, 2, 5}
\* weights and bias of a neuron (Neuron::new draws them, set_weights installs them)
ParamVals == {-1, 1}

VARIABLES
    nodes,      \* the heap: nodes[i] is the InnerValue of the Value with index i
    held,       \* the Values the client has bound (let a = ..., let result = ...)
    pc,         \* "idle", "bw" (inside Value::backward) or one of the training loop's places
    topo,       \* backward's local `topo`: the nodes whose rule is still to be invoked
    root,       \* the Value backward was last called on (0: none)
    invoked,    \* the nodes whose rule the current or last backward has invoked, in order
    track,      \* what is known of the passes so far: see BackwardStart
    used,       \* how many operations of each kind the client has made
    last,       \* the last operation made and its argument
    net,        \* the Mlp: a sequence of layers, each a sequence of neurons
    panicked,   \* an assert_eq! has failed
    train       \* the training loop's locals

vars == <<nodes, held, pc, topo, root, invoked, track, used, last, net, panicked, train>>

(***************************************************************************)
(* Value: construction.  Every operator below takes a heap and returns the *)
(* heap with the new nodes appended; its result is the last node.          *)
(***************************************************************************)
NoBackward == [kind |-> "none", v |-> 0, a |-> 0, b |-> 0]

Res(h) == Len(h)

\* The statements of the code run in order: Then(a, K) is K applied to a,
\* with a evaluated first.
Then(a, K(_)) == CASE a = a -> K(a)

\* sequences over S of length lo..hi
SeqsOf(S, lo, hi) == UNION {[1..n -> S] : n \in lo..hi}

\* Value::new
ValueNew(h, data) ==
    Append(h, [data |-> data, grad |-> 0, backward |-> NoBackward,
               prev |-> <<>>, op |-> ""])

\* Value::with_op
WithOp(h, data, children, op) ==
    Append(h, [data |-> data, grad |-> 0, backward |-> NoBackward,
               prev |-> children, op |-> op])

\* Value::set_backward: the closure is the rule's kind and the Values it captured
SetBackward(h, i, bw) == [h EXCEPT ![i].backward = bw]

\* Value::set_op
SetOpH(h, i, op) == [h EXCEPT ![i].op = op]

\* Value::set_prev
SetPrevH(h, i, prev) == [h EXCEPT ![i].prev = prev]

\* Value::set_data
SetDataH(h, i, data) == [h EXCEPT ![i].data = data]

SetGradAsAccumulate(h, i, grad) == [h EXCEPT ![i].grad = FAdd(h[i].grad, grad)]

\* Value::set_grad
SetGradH(h, i, grad) == [h EXCEPT ![i].grad = grad]

AccumulateGradOverwrites(h, i, grad) == [h EXCEPT ![i].grad = grad]

\* Value::accumulate_grad
AccumulateGrad(h, i, grad) == [h EXCEPT ![i].grad = FAdd(h[i].grad, grad)]

AddVVLeftTwice(h, l, r) ==
    LET h1 == WithOp(h, FAdd(h[l].data, h[r].data), <<l, r>>, "+")
        v == Res(h1)
    IN SetBackward(h1, v, [kind |-> "add", v |-> v, a |-> l, b |-> l])

\* &Value + &Value
AddVV(h, l, r) ==
    LET h1 == WithOp(h, FAdd(h[l].data, h[r].data), <<l, r>>, "+")
        v == Res(h1)
    IN SetBackward(h1, v, [kind |-> "add", v |-> v, a |-> l, b |-> r])

\* f32 + &Value
AddFV(h, c, r) == Then(ValueNew(h, c), LAMBDA h1 : AddVV(h1, Res(h1), r))

\* &Value + f32
AddVF(h, l, c) == Then(ValueNew(h, c), LAMBDA h1 : AddVV(h1, l, Res(h1)))

\* &Value * &Value
MulVV(h, l, r) ==
    LET h1 == WithOp(h, FMul(h[l].data, h[r].data), <<l, r>>, "*")
        v == Res(h1)
    IN SetBackward(h1, v, [kind |-> "mul", v |-> v, a |-> l, b |-> r])

\* &Value * f32
MulVF(h, l, c) == Then(ValueNew(h, c), LAMBDA h1 : MulVV(h1, l, Res(h1)))

\* f32 * &Value
MulFV(h, c, r) == Then(ValueNew(h, c), LAMBDA h1 : MulVV(h1, Res(h1), r))

\* -&Value and -Value
NegV(h, s) == MulVF(h, s, -1)

\* Value::powv
Powv(h, s, p) ==
    LET h1 == WithOp(h, FPow(h[s].data, h[p].data), <<s, p>>, "pow")
        v == Res(h1)
    IN SetBackward(h1, v, [kind |-> "pow", v |-> v, a |-> s, b |-> p])

\* Value::powf
Powf(h, s, pow) == Then(ValueNew(h, pow), LAMBDA h1 : Powv(h1, s, Res(h1)))

\* Value::exp
Exp(h, s) ==
    LET h1 == WithOp(h, FExp(h[s].data), <<s>>, "exp")
        v == Res(h1)
    IN SetBackward(h1, v, [kind |-> "exp", v |-> v, a |-> s, b |-> 0])

\* &Value - &Value
SubVV(h, l, r) ==
    Then(NegV(h, r), LAMBDA h1 :
    Then(AddVV(h1, l, Res(h1)), LAMBDA h2 :
      SetOpH(h2, Res(h2), "-")))

\* f32 - &Value
SubFV(h, c, r) ==
    Then(NegV(h, r), LAMBDA h1 :
    Then(AddFV(h1, c, Res(h1)), LAMBDA h2 :
      SetOpH(h2, Res(h2), "-")))

\* &Value - f32
SubVF(h, l, c) ==
    Then(AddVF(h, l, FMul(-1, c)), LAMBDA h1 : SetOpH(h1, Res(h1), "-"))

\* &Value / &Value
DivVV(h, l, r) ==
    Then(Powf(h, r, -1), LAMBDA h1 :
    Then(MulVV(h1, l, Res(h1)), LAMBDA h2 :
      SetOpH(h2, Res(h2), "/")))

\* &Value / f32
DivVF(h, l, c) ==
    Then(MulVF(h, l, FPow(c, -1)), LAMBDA h1 : SetOpH(h1, Res(h1), "/"))

\* f32 / &Value
DivFV(h, c, r) ==
    Then(Powf(h, r, -1), LAMBDA h1 :
    Then(MulFV(h1, c, Res(h1)), LAMBDA h2 :
      SetOpH(h2, Res(h2), "/")))

\* tanh that tags the quotient but leaves it the rule its division gave it
TanhKeepsExpandedRule(h, s) ==
    Then(MulFV(h, 2, s), LAMBDA h1 :
    Then(Exp(h1, Res(h1)), LAMBDA h2 :
    Then(SubVF(h2, Res(h2), 1), LAMBDA num :
    Then(MulFV(num, 2, s), LAMBDA h3 :
    Then(Exp(h3, Res(h3)), LAMBDA h4 :
    Then(AddVF(h4, Res(h4), 1), LAMBDA den :
    Then(DivVV(den, Res(num), Res(den)), LAMBDA value :
      SetOpH(value, Res(value), "tanh"))))))))

\* Value::tanh: the value is computed as (exp(2s) - 1) / (exp(2s) + 1), then
\* the result is re-tagged and its rule replaced by the closed form
Tanh(h, s) ==
    Then(MulFV(h, 2, s), LAMBDA h1 :
    Then(Exp(h1, Res(h1)), LAMBDA h2 :
    Then(SubVF(h2, Res(h2), 1), LAMBDA num :
    Then(MulFV(num, 2, s), LAMBDA h3 :
    Then(Exp(h3, Res(h3)), LAMBDA h4 :
    Then(AddVF(h4, Res(h4), 1), LAMBDA den :
    Then(DivVV(den, Res(num), Res(den)), LAMBDA value :
      SetBackward(SetOpH(value, Res(value), "tanh"), Res(value),
                  [kind |-> "tanh", v |-> Res(value), a |-> s, b |-> 0]))))))))

\* Sum for Value: the fold starts from Value::new(0.0) ...
SumInit(h) == ValueNew(h, 0)

\* ... and adds each item to the accumulator (ops::Add for Value)
SumStep(h, acc, x) == AddVV(h, acc, x)

(***************************************************************************)
(* Value: the backward pass.                                               *)
(***************************************************************************)
IsInByValue(h, i, values) ==
    \E k \in 1..Len(values) : h[values[k]].data = h[i].data

\* Value::is_in: Rc::ptr_eq, the identity of the cell
IsIn(h, i, values) ==
    \E k \in 1..Len(values) : values[k] = i

\* `let mut topo = Vec::new(); let mut visited = Vec::new();` of backward
NoTopo == [visited |-> <<>>, topo |-> <<>>]

\* Value::build_topo: st is `visited` and `topo`, the result is the two after
\* the call
RECURSIVE BuildTopo(_, _, _), BuildTopoChildren(_, _, _, _)
BuildTopo(h, i, st) ==
    IF ~IsIn(h, i, st.visited)
    THEN [BuildTopoChildren(h, h[i].prev, 1, [st EXCEPT !.visited = Append(@, i)])
            EXCEPT !.topo = Append(@, i)]
    ELSE st

\* the loop `for child in self.prev()` of build_topo: the call on a child
\* returns before the loop goes on
BuildTopoChildren(h, prev, k, st) ==
    IF k > Len(prev) THEN st
    ELSE Then(BuildTopo(h, prev[k], st), LAMBDA r :
           BuildTopoChildren(h, prev, k + 1, r))

\* Vec::reverse
Reverse(s) == [k \in 1..Len(s) |-> s[Len(s) + 1 - k]]

TopoNotReversed(h, i) == BuildTopo(h, i, NoTopo).topo

\* the first two lines of Value::backward: the order the rules are invoked in
ReversedTopo(h, i) == Reverse(BuildTopo(h, i, NoTopo).topo)

OnceBackwardOwnData(h, i) ==
    LET bw == h[i].backward IN
    CASE bw.kind = "add" ->
           LET h1 == AccumulateGrad(h, bw.a, FMul(1, h[bw.v].grad))
           IN AccumulateGrad(h1, bw.b, FMul(1, h1[bw.v].grad))
      [] bw.kind = "mul" ->
           LET h1 == AccumulateGrad(h, bw.a, FMul(h[bw.a].data, h[bw.v].grad))
           IN AccumulateGrad(h1, bw.b, FMul(h1[bw.b].data, h1[bw.v].grad))
      [] OTHER -> h

\* Value::once_backward: the closure set_backward bound to the node
OnceBackwardH(h, i) ==
    LET bw == h[i].backward IN
    CASE bw.kind = "add" ->
           LET h1 == AccumulateGrad(h, bw.a, FMul(1, h[bw.v].grad))
           IN AccumulateGrad(h1, bw.b, FMul(1, h1[bw.v].grad))
      [] bw.kind = "mul" ->
           LET h1 == AccumulateGrad(h, bw.a, FMul(h[bw.b].data, h[bw.v].grad))
           IN AccumulateGrad(h1, bw.b, FMul(h1[bw.a].data, h1[bw.v].grad))
      [] bw.kind = "pow" ->
           AccumulateGrad(h, bw.a,
               FMul(FMul(h[bw.b].data, FPow(h[bw.a].data, FAdd(h[bw.b].data, -1))),
                    h[bw.v].grad))
      [] bw.kind = "exp" ->
           AccumulateGrad(h, bw.a, FMul(h[bw.v].data, h[bw.v].grad))
      [] bw.kind = "tanh" ->
           AccumulateGrad(h, bw.a,
               FMul(FAdd(1, -FPow(h[bw.v].data, 2)), h[bw.v].grad))
      [] OTHER -> h

(***************************************************************************)
(* The client of Value: a test or a program that binds Values, combines    *)
(* them with the operators, writes data and gradients, and calls           *)
(* once_backward and backward.  Value::backward runs to its end before the *)
(* client does anything else (pc = "bw"); it is taken one rule at a time   *)
(* so that the order of the rules can be observed.                         *)
(***************************************************************************)
NoTrack == [passNo |-> 0, start |-> "other", snap |-> <<>>, done |-> FALSE]

NoTrain == [phase |-> "none", iter |-> 0, xs |-> <<>>, ys |-> <<>>, loss |-> 0, ypred |-> <<>>]

Idle == pc = "idle" /\ ~panicked

Held == {held[k] : k \in 1..Len(held)}

\* the nodes build_topo(root) returns, as a set
TopoSet(h, i) ==
    LET t == BuildTopo(h, i, NoTopo).topo IN {t[k] : k \in 1..Len(t)}

Grads(h) == [k \in 1..Len(h) |-> h[k].grad]

\* the client binds the result of an operator: `let result = ...`
Bind(h, what) ==
    /\ Idle
    /\ nodes' = h
    /\ held' = Append(held, Res(h))
    /\ used' = [used EXCEPT !.ops = @ + 1]
    /\ last' = [op |-> what, arg |-> Res(h)]
    /\ UNCHANGED <<pc, topo, root, invoked, track, net, panicked, train>>

\* let a = Value::new(d)
New(d) ==
    /\ Idle
    /\ nodes' = ValueNew(nodes, d)
    /\ held' = Append(held, Len(nodes) + 1)
    /\ used' = [used EXCEPT !.leaves = @ + 1]
    /\ last' = [op |-> "new", arg |-> Len(nodes) + 1]
    /\ UNCHANGED <<pc, topo, root, invoked, track, net, panicked, train>>

OpAddVV(i, j) == Bind(AddVV(nodes, i, j), "add")

OpAddVF(i, c) == Bind(AddVF(nodes, i, c), "add")

OpAddFV(c, j) == Bind(AddFV(nodes, c, j), "add")

OpSubVV(i, j) == Bind(SubVV(nodes, i, j), "sub")

OpSubVF(i, c) == Bind(SubVF(nodes, i, c), "sub")

OpSubFV(c, j) == Bind(SubFV(nodes, c, j), "sub")

OpMulVV(i, j) == Bind(MulVV(nodes, i, j), "mul")

OpMulVF(i, c) == Bind(MulVF(nodes, i, c), "mul")

OpMulFV(c, j) == Bind(MulFV(nodes, c, j), "mul")

\* no reciprocal of 0: infinities are outside the model
OpDivVV(i, j) == nodes[j].data # 0 /\ Bind(DivVV(nodes, i, j), "div")

OpDivVF(i, c) == c # 0 /\ Bind(DivVF(nodes, i, c), "div")

OpDivFV(c, j) == nodes[j].data # 0 /\ Bind(DivFV(nodes, c, j), "div")

OpNeg(i) == Bind(NegV(nodes, i), "neg")

OpPowf(i, e) == (e < 0 => nodes[i].data # 0) /\ Bind(Powf(nodes, i, e), "powf")

OpExp(i) == Bind(Exp(nodes, i), "exp")

OpTanh(i) == Bind(Tanh(nodes, i), "tanh")

\* a.set_grad(g)
SetGrad(i, g) ==
    /\ Idle
    /\ nodes' = SetGradH(nodes, i, g)
    /\ used' = [used EXCEPT !.sets = @ + 1]
    /\ track' = [track EXCEPT !.done = FALSE]
    /\ last' = [op |-> "set_grad", arg |-> i]
    /\ UNCHANGED <<held, pc, topo, root, invoked, net, panicked, train>>

\* a.set_data(d)
SetData(i, d) ==
    /\ Idle
    /\ nodes' = SetDataH(nodes, i, d)
    /\ used' = [used EXCEPT !.sets = @ + 1]
    /\ track' = NoTrack
    /\ last' = [op |-> "set_data", arg |-> i]
    /\ UNCHANGED <<held, pc, topo, root, invoked, net, panicked, train>>

\* a.once_backward(), called by the client
OnceBackward(i) ==
    /\ Idle
    /\ nodes' = OnceBackwardH(nodes, i)
    /\ used' = [used EXCEPT !.sets = @ + 1]
    /\ track' = NoTrack
    /\ last' = [op |-> "once_backward", arg |-> i]
    /\ UNCHANGED <<held, pc, topo, root, invoked, net, panicked, train>>

\* What a pass starts from.  passNo: 1 for a pass that starts with every
\* gradient below the root 0, 2 for the next pass on the same root with no
\* data written in between, 0 otherwise.  start: "zero" (every gradient below
\* the root is 0), "kept" (a second pass, every gradient as the first pass left
\* it), "leaves" (the gradient of every leaf is 0), "other".  snap: the
\* gradients as pass 1 left them.  done: a pass has ended and no gradient or
\* data has been written since.
StartOf(h, i) ==
    LET reach == TopoSet(h, i)
        zero == \A n \in reach \ {i} : h[n].grad = 0
        second == track.passNo = 1 /\ track.snap # <<>> /\ i = root
        kept == second /\ \A n \in reach : h[n].grad = track.snap[n]
        leaves == \A n \in reach \ {i} : h[n].prev = <<>> => h[n].grad = 0
    IN [passNo |-> IF second THEN 2 ELSE IF zero THEN 1 ELSE 0,
        start |-> IF zero THEN "zero" ELSE IF kept THEN "kept"
                  ELSE IF leaves THEN "leaves" ELSE "other",
        snap |-> IF second THEN track.snap ELSE <<>>,
        done |-> FALSE]

\* Value::backward, to the seeding of the root: build_topo, reverse, set_grad(1.0)
BackwardBegin(i) ==
    /\ topo' = ReversedTopo(nodes, i)
    /\ nodes' = SetGradH(nodes, i, 1)
    /\ root' = i
    /\ invoked' = <<>>
    /\ track' = StartOf(nodes, i)
    /\ last' = [op |-> "backward", arg |-> i]

\* result.backward(), called by the client
BackwardStart(i) ==
    /\ Idle
    /\ BackwardBegin(i)
    /\ pc' = "bw"
    /\ used' = [used EXCEPT !.backs = @ + 1]
    /\ UNCHANGED <<held, net, panicked, train>>

\* one turn of `topo.iter().for_each(|value| value.once_backward())`
RuleStep ==
    /\ topo # <<>>
    /\ nodes' = OnceBackwardH(nodes, Head(topo))
    /\ topo' = Tail(topo)
    /\ invoked' = Append(invoked, Head(topo))
    /\ last' = [op |-> "rule", arg |-> Head(topo)]
    /\ track' = IF Len(topo) > 1 THEN track
                ELSE [track EXCEPT !.done = TRUE,
                                   !.snap = IF track.passNo = 1
                                            THEN Grads(OnceBackwardH(nodes, Head(topo)))
                                            ELSE @]

BackwardStep ==
    /\ pc = "bw"
    /\ RuleStep
    /\ pc' = IF Len(topo) > 1 THEN "bw" ELSE "idle"
    /\ UNCHANGED <<held, root, used, net, panicked, train>>

Init ==
    /\ nodes = <<>>
    /\ held = <<>>
    /\ pc = "idle"
    /\ topo = <<>>
    /\ root = 0
    /\ invoked = <<>>
    /\ track = NoTrack
    /\ used = [leaves |-> 0, ops |-> 0, sets |-> 0, backs |-> 0]
    /\ last = [op |-> "init", arg |-> 0]
    /\ net = <<>>
    /\ panicked = FALSE
    /\ train = NoTrain

\* the client binds its leaves, then combines them
Leaf ==
    /\ used.leaves < MaxLeaves
    /\ used.ops = 0
    /\ root = 0
    /\ \E d \in LeafVals : New(d)

\* every operator of Value, on the Values the client holds
Operator ==
    \/ \E i, j \in Held : OpAddVV(i, j)
    \/ \E i \in Held, c \in Scalars : OpAddVF(i, c)
    \/ \E i \in Held, c \in Scalars : OpAddFV(c, i)
    \/ \E i, j \in Held : OpSubVV(i, j)
    \/ \E i \in Held, c \in Scalars : OpSubVF(i, c)
    \/ \E i \in Held, c \in Scalars : OpSubFV(c, i)
    \/ \E i, j \in Held : OpMulVV(i, j)
    \/ \E i \in Held, c \in Scalars : OpMulVF(i, c)
    \/ \E i \in Held, c \in Scalars : OpMulFV(c, i)
    \/ \E i, j \in Held : OpDivVV(i, j)
    \/ \E i \in Held, c \in Scalars : OpDivVF(i, c)
    \/ \E i \in Held, c \in Scalars : OpDivFV(c, i)
    \/ \E i \in Held : OpNeg(i)
    \/ \E i \in Held, e \in PowExps : OpPowf(i, e)
    \/ \E i \in Held : OpExp(i)
    \/ \E i \in Held : OpTanh(i)

\* the graph is built, then differentiated
Build ==
    /\ used.ops < MaxOps
    /\ root = 0
    /\ Operator

\* The client of the tests of value.rs: it builds a graph and calls backward
\* on one of its Values.
Next ==
    \/ Leaf
    \/ Build
    \/ used.backs < 1 /\ \E i \in Held : BackwardStart(i)
    \/ BackwardStep

Spec == Init /\ [][Next]_vars

\* The client of test_value_add_backward and test_value_mul_backward: it
\* builds one operation, writes gradients and invokes local rules by hand.
NextLocal ==
    \/ Leaf
    \/ used.ops = 0 /\ Build
    \/ used.sets < MaxSets /\ \E i \in Held, g \in GradVals : SetGrad(i, g)
    \/ used.sets < MaxSets /\ \E i \in Held : OnceBackward(i)

SpecLocal == Init /\ [][NextLocal]_vars

\* n.set_grad(g) for every node n of S
SetGradAll(h, S, g) ==
    [n \in 1..Len(h) |-> IF n \in S THEN SetGradH(h, n, g)[n] ELSE h[n]]

\* the client zeroes the gradient of the nodes of S, one set_grad(0.0) each
Zero(S, what) ==
    /\ Idle
    /\ nodes' = SetGradAll(nodes, S, 0)
    /\ track' = [track EXCEPT !.done = FALSE]
    /\ last' = [op |-> what, arg |-> root]
    /\ used' = [used EXCEPT !.sets = @ + 1]
    /\ UNCHANGED <<held, pc, topo, root, invoked, net, panicked, train>>

\* every leaf of the graph
ZeroLeaves == Zero({n \in TopoSet(nodes, root) : nodes[n].prev = <<>>}, "zero_leaves")

\* every node of the graph, the ones in the middle too (the client walks prev())
ZeroAll == Zero(TopoSet(nodes, root), "zero_all")

\* A client that calls backward again on the graph it has already
\* differentiated, as it is or after zeroing gradients.
NextRepeat ==
    \/ Leaf
    \/ /\ used.ops < MaxOps /\ root = 0
       /\ \/ \E i, j \in Held : OpAddVV(i, j)
          \/ \E i, j \in Held : OpMulVV(i, j)
          \/ \E i \in Held, c \in Scalars : OpMulVF(i, c)
          \/ \E i \in Held : OpTanh(i)
    \/ /\ used.backs < MaxBackward
       /\ \E i \in Held : (root = 0 \/ i = root) /\ BackwardStart(i)
    \/ BackwardStep
    \/ root # 0 /\ used.sets = 0 /\ ZeroLeaves
    \/ root # 0 /\ used.sets = 0 /\ ZeroAll

SpecRepeat == Init /\ [][NextRepeat]_vars

\* a.set_prev(ps)
SetPrev(i, ps) ==
    /\ Idle
    /\ nodes' = SetPrevH(nodes, i, ps)
    /\ used' = [used EXCEPT !.sets = @ + 1]
    /\ track' = NoTrack
    /\ last' = [op |-> "set_prev", arg |-> i]
    /\ UNCHANGED <<held, pc, topo, root, invoked, net, panicked, train>>

\* a.set_op(op)
SetOp(i, op) ==
    /\ Idle
    /\ nodes' = SetOpH(nodes, i, op)
    /\ used' = [used EXCEPT !.sets = @ + 1]
    /\ last' = [op |-> "set_op", arg |-> i]
    /\ UNCHANGED <<held, pc, topo, root, invoked, track, net, panicked, train>>

\* A client that uses every public operation of Value: the constructors and
\* operators, the four setters, backward.
NextSet ==
    \/ Leaf
    \/ used.ops = 0 /\ Build
    \/ used.sets = 0 /\ \E i \in Held, d \in LeafVals : SetData(i, d)
    \/ used.sets = 0 /\ \E i \in Held, g \in GradVals : SetGrad(i, g)
    \/ used.sets = 0 /\ \E i \in Held, ps \in SeqsOf(Held, 0, 2) : SetPrev(i, ps)
    \/ used.sets = 0 /\ \E i \in Held, op \in {"", "+", "*"} : SetOp(i, op)
    \/ used.backs < 1 /\ \E i \in Held : BackwardStart(i)
    \/ BackwardStep

SpecSet == Init /\ [][NextSet]_vars

(***************************************************************************)
(* Neuron: weights and a bias, each a Value.  `net` holds the layers of    *)
(* the network under test; a lone Neuron is a network of one layer of one  *)
(* neuron.                                                                  *)
(***************************************************************************)
ArityAny(n, inputs) == TRUE

\* the assert_eq! that opens Neuron::call
ArityOk(n, inputs) == Len(n.weights) = Len(inputs)

RECURSIVE DotFold(_, _, _, _)
\* inputs.iter().zip(weights).map(|(x1, w1)| x1 * &w1) folded by Sum: each
\* product is built when the fold asks for it and added to the accumulator,
\* which is the last node of h
DotFold(h, inputs, weights, k) ==
    IF k > Len(inputs) \/ k > Len(weights) THEN h
    ELSE Then(MulVV(h, inputs[k], weights[k]), LAMBDA h1 :
         Then(SumStep(h1, Res(h), Res(h1)), LAMBDA h2 :
           DotFold(h2, inputs, weights, k + 1)))

\* Neuron::call past its assertion
NeuronCallH(h, n, inputs) ==
    Then(SumInit(h), LAMBDA h0 :
    Then(DotFold(h0, inputs, n.weights, 1), LAMBDA h1 :
    Then(AddVV(h1, Res(h1), n.bias), LAMBDA h2 :
      Tanh(h2, Res(h2)))))

\* the nodes [from+1 .. from+n] as Values
Fresh(from, n) == [k \in 1..n |-> from + k]

RECURSIVE NewAll(_, _, _)
\* Value::new for each of ds[k..]
NewAll(h, ds, k) == IF k > Len(ds) THEN h ELSE NewAll(ValueNew(h, ds[k]), ds, k + 1)

\* Neuron::new(nin): ds are the nin + 1 samples of the uniform distribution
NeuronNewH(h, nin, ds) == NewAll(h, ds, 1)

\* let neuron = Neuron::new(nin)
NeuronNew(nin, ds) ==
    /\ Idle
    /\ net = <<>>
    /\ nodes' = NeuronNewH(nodes, nin, ds)
    /\ net' = <<<<[weights |-> Fresh(Len(nodes), nin), bias |-> Len(nodes) + nin + 1]>>>>
    /\ last' = [op |-> "neuron_new", arg |-> nin]
    /\ UNCHANGED <<held, pc, topo, root, invoked, track, used, panicked, train>>

\* neuron.set_weights(ws)
NeuronSetWeights(ws) ==
    /\ Idle
    /\ net # <<>>
    /\ net' = [net EXCEPT ![1][1].weights = ws]
    /\ used' = [used EXCEPT !.sets = @ + 1]
    /\ last' = [op |-> "set_weights", arg |-> ws]
    /\ UNCHANGED <<nodes, held, pc, topo, root, invoked, track, panicked, train>>

\* neuron.set_bias(b)
NeuronSetBias(b) ==
    /\ Idle
    /\ net # <<>>
    /\ net' = [net EXCEPT ![1][1].bias = b]
    /\ used' = [used EXCEPT !.sets = @ + 1]
    /\ last' = [op |-> "set_bias", arg |-> b]
    /\ UNCHANGED <<nodes, held, pc, topo, root, invoked, track, panicked, train>>

\* let result = neuron.call(&inputs): a panic on a length mismatch, before
\* anything else
NeuronCall(inputs) ==
    /\ Idle
    /\ net # <<>>
    /\ last' = [op |-> "call", arg |-> inputs]
    /\ IF ArityOk(net[1][1], inputs)
       THEN /\ nodes' = NeuronCallH(nodes, net[1][1], inputs)
            /\ held' = Append(held, Res(NeuronCallH(nodes, net[1][1], inputs)))
            /\ used' = [used EXCEPT !.ops = @ + 1]
            /\ UNCHANGED panicked
       ELSE /\ panicked' = TRUE
            /\ UNCHANGED <<nodes, held, used>>
    /\ UNCHANGED <<pc, topo, root, invoked, track, net, train>>

\* The client of test_neuron_call, beside the client of Value: leaves, a
\* neuron, its setters, one call, backward on the result.
NextNeuron ==
    \/ net = <<>> /\ Leaf
    \/ net = <<>> /\ Build
    \/ /\ used.ops = 0
       /\ \E nin \in 1..MaxIn : \E ds \in [1..nin + 1 -> ParamVals] : NeuronNew(nin, ds)
    \/ /\ used.ops = 0 /\ used.sets = 0
       /\ \E ws \in SeqsOf(Held, 1, MaxIn) : NeuronSetWeights(ws)
    \/ /\ used.ops = 0 /\ used.sets = 0
       /\ \E b \in Held : NeuronSetBias(b)
    \/ /\ used.ops = 0
       /\ \E inputs \in SeqsOf(Held, 0, MaxIn) : NeuronCall(inputs)
    \/ used.backs < 1 /\ \E i \in Held : BackwardStart(i)
    \/ BackwardStep

SpecNeuron == Init /\ [][NextNeuron]_vars

(***************************************************************************)
(* Layer and Mlp, and the training loop of tests/simple_model_test.rs.     *)
(***************************************************************************)
RECURSIVE LayerNewH(_, _, _, _, _)
\* Layer::new(nin, nout): neurons k..nout, each nin weights and a bias drawn
\* in turn from ds; the result is the heap and the neurons
LayerNewH(h, nin, nout, ds, k) ==
    IF k > nout THEN [h |-> h, neurons |-> <<>>]
    ELSE Then(NeuronNewH(h, nin, [j \in 1..nin + 1 |-> ds[(k - 1) * (nin + 1) + j]]),
              LAMBDA h1 :
         Then(LayerNewH(h1, nin, nout, ds, k + 1), LAMBDA rest :
           [h |-> rest.h,
            neurons |-> <<[weights |-> Fresh(Len(h), nin), bias |-> Len(h) + nin + 1]>>
                        \o rest.neurons]))

\* the number of parameters of Mlp::new(nin, nouts), layers k..
RECURSIVE ParamCount(_, _, _)
ParamCount(nin, nouts, k) ==
    IF k > Len(nouts) THEN 0
    ELSE nouts[k] * (nin + 1) + ParamCount(nouts[k], nouts, k + 1)

RECURSIVE MlpNewH(_, _, _, _, _)
\* Mlp::new(nin, nouts): layer k takes as many inputs as layer k - 1 has neurons
MlpNewH(h, nin, nouts, ds, k) ==
    IF k > Len(nouts) THEN [h |-> h, layers |-> <<>>]
    ELSE Then(LayerNewH(h, nin, nouts[k], ds, 1), LAMBDA l :
         Then(MlpNewH(l.h, nouts[k], nouts,
                      [j \in 1..(Len(ds) - nouts[k] * (nin + 1)) |->
                          ds[nouts[k] * (nin + 1) + j]],
                      k + 1), LAMBDA rest :
           [h |-> rest.h, layers |-> <<l.neurons>> \o rest.layers]))

RECURSIVE LayerCallH(_, _, _, _)
\* Layer::call: each neuron of the layer, in turn, on the same inputs
LayerCallH(h, layer, inputs, k) ==
    IF k > Len(layer) THEN [h |-> h, out |-> <<>>]
    ELSE Then(NeuronCallH(h, layer[k], inputs), LAMBDA h1 :
         Then(LayerCallH(h1, layer, inputs, k + 1), LAMBDA rest :
           [h |-> rest.h, out |-> <<Res(h1)>> \o rest.out]))

RECURSIVE MlpCallH(_, _, _, _)
\* Mlp::call: the output of each layer is the input of the next
MlpCallH(h, layers, inputs, k) ==
    IF k > Len(layers) THEN [h |-> h, out |-> inputs]
    ELSE Then(LayerCallH(h, layers[k], inputs, 1), LAMBDA l :
           MlpCallH(l.h, layers, l.out, k + 1))

\* Mlp::callf: a fresh leaf for each number, then Mlp::call
MlpCallfH(h, layers, xs) ==
    Then(NewAll(h, xs, 1), LAMBDA h1 :
      MlpCallH(h1, layers, Fresh(Len(h), Len(xs)), 1))

RECURSIVE Concat(_, _)
\* Vec<Vec<_>>::concat, from the k-th on
Concat(ss, k) == IF k > Len(ss) THEN <<>> ELSE ss[k] \o Concat(ss, k + 1)

\* Neuron::parameters
NeuronParameters(n) == n.weights \o <<n.bias>>

\* Layer::parameters
LayerParameters(layer) == Concat([k \in 1..Len(layer) |-> NeuronParameters(layer[k])], 1)

\* Mlp::parameters
Parameters(layers) == Concat([k \in 1..Len(layers) |-> LayerParameters(layers[k])], 1)

RECURSIVE LossH(_, _, _, _)
\* ypred.iter().zip(ys).map(|(pred, ygt)| (pred - ygt).powf(2.0)).sum(), from
\* the k-th pair on; the accumulator is the last node of h
LossH(h, ypred, ys, k) ==
    IF k > Len(ypred) \/ k > Len(ys) THEN h
    ELSE Then(SubVF(h, ypred[k], ys[k]), LAMBDA h1 :
         Then(Powf(h1, Res(h1), 2), LAMBDA h2 :
         Then(SumStep(h2, Res(h), Res(h2)), LAMBDA h3 :
           LossH(h3, ypred, ys, k + 1))))

ZeroGradSkipped(h, ps, k) == h

RECURSIVE ZeroGradH(_, _, _)
\* mlp.parameters().iter().for_each(|p| p.set_grad(0.0)), from the k-th on
ZeroGradH(h, ps, k) ==
    IF k > Len(ps) THEN h ELSE ZeroGradH(SetGradH(h, ps[k], 0), ps, k + 1)

RECURSIVE UpdateH(_, _, _)
\* mlp.parameters().iter().for_each(|p| p.set_data(p.data() + -0.06 * p.grad()))
UpdateH(h, ps, k) ==
    IF k > Len(ps) THEN h
    ELSE UpdateH(SetDataH(h, ps[k], FAdd(h[ps[k]].data, FMul(LearningRate, h[ps[k]].grad))),
                 ps, k + 1)

\* let mlp = Mlp::new(nin, nouts); let xs = ..; let ys = ..;
\* let mut loss = Value::new(10.0): ds are the samples of the uniform
\* distribution the parameters start from
TrainInit(nin, nouts, ds, xs, ys) ==
    /\ Idle
    /\ train.phase = "none" /\ nodes = <<>>
    /\ LET m == MlpNewH(nodes, nin, nouts, ds, 1)
           h == ValueNew(m.h, 10)
       IN /\ nodes' = h
          /\ net' = m.layers
          /\ train' = [phase |-> "forward", iter |-> 1, xs |-> xs, ys |-> ys,
                       loss |-> Res(h), ypred |-> <<>>]
    /\ last' = [op |-> "mlp_new", arg |-> nin]
    /\ UNCHANGED <<held, pc, topo, root, invoked, track, used, panicked>>

\* one item of ypred: mlp.callf(input).get(0).  The graph of the iteration
\* before is no longer referenced; its nodes stay in the heap, out of reach.
ForwardSample ==
    /\ Idle
    /\ train.phase = "forward"
    /\ LET r == MlpCallfH(nodes, net, train.xs[Len(train.ypred) + 1])
           ypred == Append(train.ypred, r.out[1])
       IN /\ nodes' = r.h
          /\ train' = [train EXCEPT !.ypred = ypred,
                                    !.phase = IF Len(ypred) = Len(train.xs)
                                              THEN "loss" ELSE "forward"]
    /\ last' = [op |-> "callf", arg |-> Len(train.ypred) + 1]
    /\ UNCHANGED <<held, pc, topo, root, invoked, track, used, net, panicked>>

\* loss = ... .sum()
Loss ==
    /\ Idle
    /\ train.phase = "loss"
    /\ LET h == LossH(SumInit(nodes), train.ypred, train.ys, 1)
       IN /\ nodes' = h
          /\ train' = [train EXCEPT !.loss = Res(h), !.phase = "zero"]
    /\ last' = [op |-> "loss", arg |-> train.iter]
    /\ UNCHANGED <<held, pc, topo, root, invoked, track, used, net, panicked>>

\* the parameters' gradients are set to 0
ZeroGrad ==
    /\ Idle
    /\ train.phase = "zero"
    /\ nodes' = ZeroGradH(nodes, Parameters(net), 1)
    /\ train' = [train EXCEPT !.phase = "backward"]
    /\ last' = [op |-> "zero_grad", arg |-> train.iter]
    /\ UNCHANGED <<held, pc, topo, root, invoked, track, used, net, panicked>>

\* loss.backward()
TrainBackward ==
    /\ Idle
    /\ train.phase = "backward"
    /\ BackwardBegin(train.loss)
    /\ pc' = "bw"
    /\ train' = [train EXCEPT !.phase = "update"]
    /\ UNCHANGED <<held, used, net, panicked>>

\* the parameters move against their gradients
Update ==
    /\ Idle
    /\ train.phase = "update"
    /\ nodes' = UpdateH(nodes, Parameters(net), 1)
    /\ train' = [train EXCEPT !.phase = "test"]
    /\ track' = NoTrack
    /\ last' = [op |-> "update", arg |-> train.iter]
    /\ UNCHANGED <<held, pc, topo, root, invoked, used, net, panicked>>

\* `if loss.data() < 0.06 { break; }` and the end of `for _ in 0..30`.  The
\* model's numbers are not ordered, so the loop may leave after any iteration;
\* MaxIters stands for the 30.
LoopTest(leave) ==
    /\ Idle
    /\ train.phase = "test"
    /\ train' = IF leave \/ train.iter = MaxIters
                THEN [train EXCEPT !.phase = "done"]
                ELSE [train EXCEPT !.phase = "forward", !.iter = @ + 1, !.ypred = <<>>]
    /\ last' = [op |-> "test", arg |-> train.iter]
    /\ UNCHANGED <<nodes, held, pc, topo, root, invoked, track, used, net, panicked>>

\* the shapes of the networks under training: the sizes of the layers
NOuts == {<<1>>, <<2>>}

\* the data of the test: xs and ys
TestXs == <<<<2, 3, -1>>, <<3, -1, FInv(2)>>, <<FInv(2), 1, 1>>, <<1, 1, -1>>>>

TestYs == <<1, -1, -1, 1>>

\* The training loop of the test, on a network of nin inputs and on the
\* first n samples of its data, cut to nin inputs.
NextTrain ==
    \/ \E nin \in 1..MaxIn, nouts \in NOuts, n \in 1..MaxSamples :
         \E ds \in [1..ParamCount(nin, nouts, 1) -> ParamVals] :
            TrainInit(nin, nouts, ds,
                      [k \in 1..n |-> SubSeq(TestXs[k], 1, nin)],
                      SubSeq(TestYs, 1, n))
    \/ ForwardSample
    \/ Loss
    \/ ZeroGrad
    \/ TrainBackward
    \/ BackwardStep
    \/ Update
    \/ \E leave \in BOOLEAN : LoopTest(leave)

SpecTrain == Init /\ [][NextTrain]_vars

(***************************************************************************)
(* What a rule hands to its operands: the closures of set_backward, read   *)
(* as a list of (operand, local derivative) pairs.                         *)
(***************************************************************************)
RuleTargets(h, v) ==
    LET bw == h[v].backward IN
    CASE bw.kind = "add" -> <<[to |-> bw.a, by |-> 1], [to |-> bw.b, by |-> 1]>>
      [] bw.kind = "mul" -> <<[to |-> bw.a, by |-> h[bw.b].data],
                              [to |-> bw.b, by |-> h[bw.a].data]>>
      [] bw.kind = "pow" ->
           <<[to |-> bw.a,
              by |-> FMul(h[bw.b].data, FPow(h[bw.a].data, FAdd(h[bw.b].data, -1)))]>>
      [] bw.kind = "exp" -> <<[to |-> bw.a, by |-> h[bw.v].data]>>
      [] bw.kind = "tanh" -> <<[to |-> bw.a, by |-> FAdd(1, -FPow(h[bw.v].data, 2))]>>
      [] OTHER -> <<>>

RECURSIVE SumTo(_, _)
\* f[1] + ... + f[n] in the model's arithmetic
SumTo(f, n) == IF n = 0 THEN 0 ELSE FAdd(SumTo(f, n - 1), f[n])

\* what the rule of v contributes to n, given the gradient of v
Contribution(h, v, n) ==
    LET t == RuleTargets(h, v)
    IN SumTo([k \in 1..Len(t) |-> IF t[k].to = n THEN FMul(t[k].by, h[v].grad) ELSE 0],
             Len(t))

\* the sum of the contributions of every consumer of n below the root
Received(h, r, n) ==
    LET reach == TopoSet(h, r)
    IN SumTo([v \in 1..Len(h) |-> IF v \in reach THEN Contribution(h, v, n) ELSE 0],
             Len(h))

\* a pass over a graph whose gradients were all 0 has ended
PassDone == pc = "idle" /\ track.done /\ track.passNo = 1 /\ track.start = "zero"

\* C1: after backward, every node below the root holds the SUM of what each
\* of its consumers contributed (one term per use, so a node used twice by
\* one consumer gets two terms), never only the last contribution written.
\* For c = &a + &a the gradient of a is 2; for c = &a * &a it is 2 * a.data.
C1_Accumulates ==
    PassDone =>
        /\ \A n \in TopoSet(nodes, root) \ {root} :
               nodes[n].grad = Received(nodes, root, n)
        /\ LET bw == nodes[root].backward IN
           /\ (bw.kind = "add" /\ bw.a = bw.b) => nodes[bw.a].grad = 2
           /\ (bw.kind = "mul" /\ bw.a = bw.b) =>
                  nodes[bw.a].grad = FMul(2, nodes[bw.a].data)

\* c = &a * &a with a.data == 2, after c.backward(): a.grad == 4, and a node
\* with two different consumers has been differentiated
C1_Witness ==
    /\ PassDone
    /\ nodes[root].backward.kind = "mul"
    /\ nodes[root].backward.a = nodes[root].backward.b
    /\ nodes[nodes[root].backward.a].data = 2
    /\ nodes[nodes[root].backward.a].grad = 4

(***************************************************************************)
(* The chain rule, two ways: along the edges the rules propagate on, and   *)
(* along the recorded parents with the derivative of each operation.       *)
(***************************************************************************)
\* the edges the rules of the nodes of reach propagate on: from a node to the
\* operand in a slot of its rule, by the local derivative
RuleEdges(h, reach) ==
    UNION {{[from |-> v, slot |-> j, to |-> RuleTargets(h, v)[j].to,
             by |-> RuleTargets(h, v)[j].by] : j \in 1..Len(RuleTargets(h, v))}
           : v \in reach}

RECURSIVE PathSumP(_, _, _), PathSumInP(_, _, _)
\* the sum, over the paths from r to n made of the edges, of the product of
\* the local derivatives along the path, as a number of 0 .. P-1
PathSumP(edges, r, n) ==
    IF n = r THEN 1 ELSE PathSumInP(edges, r, {e \in edges : e.to = n})

\* the part of that sum that arrives by the edges of in
PathSumInP(edges, r, in) ==
    IF in = {} THEN 0
    ELSE LET e == CHOOSE e \in in : TRUE
         IN (e.by * PathSumP(edges, r, e.from) + PathSumInP(edges, r, in \ {e})) % P

\* that sum, as the gradients are written
PathSum(edges, r, n) == Norm(PathSumP(edges, r, n))

RECURSIVE Reached(_, _, _)
\* there is a path from r to n made of the edges
Reached(edges, r, n) ==
    \/ n = r
    \/ \E e \in edges : e.to = n /\ Reached(edges, r, e.from)

\* the derivative of the value of v by each of its recorded parents, from the
\* operation that computed the value: a "-" node is a sum, a "/" node and a
\* "tanh" node are products (Sub, Div and tanh re-tag the node they built).
\* The derivative by an exponent is a logarithm, which the model does not
\* have: exponents are left out of the statements below.
ParentDerivs(h, v) ==
    LET n == h[v] IN
    CASE n.op \in {"+", "-"} -> <<1, 1>>
      [] n.op \in {"*", "/", "tanh"} -> <<h[n.prev[2]].data, h[n.prev[1]].data>>
      [] n.op = "pow" ->
           <<FMul(h[n.prev[2]].data,
                  FPow(h[n.prev[1]].data, FAdd(h[n.prev[2]].data, -1))), 0>>
      [] n.op = "exp" -> <<n.data>>
      [] OTHER -> <<>>

IsExponent(h, n) == \E v \in 1..Len(h) : h[v].op = "pow" /\ h[v].prev[2] = n

\* the edges from each node of reach to its recorded parents, by the
\* derivative of its operation
ParentEdges(h, reach) ==
    UNION {{[from |-> v, slot |-> j, to |-> h[v].prev[j],
             by |-> ParentDerivs(h, v)[j]] : j \in 1..Len(ParentDerivs(h, v))}
           : v \in reach}

RECURSIVE DotTerms(_, _)
\* the products x_i * w_i under the accumulator acc of a neuron's sum
DotTerms(h, acc) ==
    IF h[acc].prev = <<>> THEN <<>>
    ELSE Append(DotTerms(h, h[acc].prev[1]), h[acc].prev[2])

\* backward has run on the output of the neuron, whose inputs, weights and
\* bias are distinct Values
NeuronDone ==
    /\ PassDone
    /\ net # <<>>
    /\ nodes[root].op = "tanh"
    /\ LET s == nodes[root].backward.a
           t == DotTerms(nodes, nodes[s].prev[1])
       IN Cardinality({nodes[t[k]].prev[1] : k \in 1..Len(t)}
                      \cup {nodes[t[k]].prev[2] : k \in 1..Len(t)}
                      \cup {nodes[s].prev[2]}) = 2 * Len(t) + 1

\* C2 (as stated): after one backward(out) on a fresh graph EVERY node
\* reachable from out holds the sum over all parent paths of the product of
\* the local derivatives.
C2_AllParentPaths ==
    PassDone =>
        LET reach == TopoSet(nodes, root)
            parents == ParentEdges(nodes, reach)
        IN \A n \in reach : ~IsExponent(nodes, n) =>
               nodes[n].grad = PathSum(parents, root, n)

\* C2 (amended): after one backward(out) on a fresh graph every node
\* reachable from out holds the sum over the paths made of the edges the
\* rules propagate on (both operands of + and *, the base of pow, the operand
\* of exp and of tanh) of the product of the local derivatives; for a node
\* the rules reach this is the chain-rule sum over its parent paths, and a
\* node they do not reach (the nodes tanh builds to compute its value, an
\* exponent) keeps gradient 0.  For a neuron on distinct Values, with
\* pre-activation s: x_i.grad = w_i.data * s.grad, w_i.grad = x_i.data *
\* s.grad, b.grad = s.grad.
C2_ChainRule ==
    /\ PassDone =>
           LET reach == TopoSet(nodes, root)
               rules == RuleEdges(nodes, reach)
               parents == ParentEdges(nodes, reach)
           IN \A n \in reach :
                 /\ nodes[n].grad = PathSum(rules, root, n)
                 /\ IF Reached(rules, root, n)
                    THEN ~IsExponent(nodes, n) =>
                             nodes[n].grad = PathSum(parents, root, n)
                    ELSE nodes[n].grad = 0
    /\ NeuronDone =>
           LET s == nodes[root].backward.a
               t == DotTerms(nodes, nodes[s].prev[1])
               g == nodes[s].grad
           IN /\ \A k \in 1..Len(t) :
                   LET x == nodes[t[k]].prev[1]
                       w == nodes[t[k]].prev[2]
                   IN /\ nodes[x].grad = FMul(nodes[w].data, g)
                      /\ nodes[w].grad = FMul(nodes[x].data, g)
              /\ nodes[nodes[s].prev[2]].grad = g

\* a neuron of two inputs on distinct Values has been differentiated, and the
\* gradient reached its first input
C2_Witness ==
    /\ NeuronDone
    /\ LET s == nodes[root].backward.a
           t == DotTerms(nodes, nodes[s].prev[1])
       IN /\ Len(t) = 2
          /\ nodes[s].grad # 0
          /\ nodes[nodes[t[1]].prev[1]].grad # 0
          /\ nodes[nodes[t[1]].prev[1]].grad # nodes[nodes[t[1]].prev[2]].grad

\* a local rule has just been invoked on node i, by the client or by backward
RuleRan(i) == last'.op \in {"once_backward", "rule"} /\ last'.arg = i

\* what a rule adds to node n, from the closure of the node it belongs to:
\* da into its first operand, db into its second
Added(bw, n, da, db) ==
    FAdd(IF n = bw.a THEN da ELSE 0, IF n = bw.b THEN db ELSE 0)

\* C3: invoking the local rule of a node whose gradient is g ADDS to the
\* gradients of its operands: g and g for an Add node, b.data * g and
\* a.data * g for a Multiply node (also when an operand is a lifted scalar:
\* a * 2.0 with g = 2 takes a.grad from 0 to 4); no other gradient changes,
\* the node's own gradient included, and no value changes.
C3_LocalRule ==
    [][\A i \in 1..Len(nodes) : RuleRan(i) =>
         LET bw == nodes[i].backward
             g == nodes[i].grad
         IN /\ Len(nodes') = Len(nodes)
            /\ \A n \in 1..Len(nodes) : nodes'[n].data = nodes[n].data
            /\ nodes'[i].grad = g
            /\ bw.kind = "add" =>
                 \A n \in 1..Len(nodes) :
                    nodes'[n].grad = FAdd(nodes[n].grad, Added(bw, n, g, g))
            /\ bw.kind = "mul" =>
                 \A n \in 1..Len(nodes) :
                    nodes'[n].grad =
                        FAdd(nodes[n].grad,
                             Added(bw, n, FMul(nodes[bw.b].data, g),
                                          FMul(nodes[bw.a].data, g)))
            /\ (bw.kind = "mul" /\ nodes[bw.b].data = 2 /\ g = 2
                  /\ bw.a # bw.b /\ nodes[bw.a].grad = 0) =>
                 nodes'[bw.a].grad = 4]_vars

\* c = &a * 2.0; c.set_grad(2.0); c.once_backward() has left a.grad == 4 and
\* c.grad == 2
C3_Witness ==
    /\ last.op = "once_backward"
    /\ LET bw == nodes[last.arg].backward IN
       /\ bw.kind = "mul"
       /\ bw.a \in Held /\ bw.b \notin Held
       /\ nodes[bw.b].data = 2
       /\ nodes[last.arg].grad = 2
       /\ nodes[bw.a].grad = 4

RECURSIVE ReachSet(_, _)
\* the nodes reachable from the nodes of S through recorded parents
ReachSet(h, S) ==
    LET more == S \cup UNION {{h[n].prev[k] : k \in 1..Len(h[n].prev)} : n \in S}
    IN IF more = S THEN S ELSE ReachSet(h, more)

\* t lists the nodes reachable from i, each once, parents first, i last
TopoValid(h, i, t) ==
    /\ {t[k] : k \in 1..Len(t)} = ReachSet(h, {i})
    /\ \A j, k \in 1..Len(t) : t[j] = t[k] => j = k
    /\ \A k \in 1..Len(t) :
         \A p \in 1..Len(h[t[k]].prev) : \E j \in 1..(k - 1) : t[j] = h[t[k]].prev[p]
    /\ t[Len(t)] = i

\* C4: for every node i of a graph built with the operators,
\* build_topo(i) from empty lists contains every node reachable from i exactly
\* once (nodes are told apart by identity: a shared node is listed once, two
\* nodes of equal data are both listed), every node after all its parents,
\* and i last.
C4_TopoValid ==
    root = 0 =>
        \A i \in 1..Len(nodes) : TopoValid(nodes, i, BuildTopo(nodes, i, NoTopo).topo)

\* a graph in which some node reaches a shared node along two paths and two
\* different nodes of equal data
C4_Witness ==
    /\ root = 0
    /\ \E i \in Held :
         LET reach == ReachSet(nodes, {i}) IN
         /\ \E m, n \in reach : m # n /\ nodes[m].data = nodes[n].data
         /\ \E n \in reach :
              Cardinality({v \in reach : \E k \in 1..Len(nodes[v].prev) :
                                            nodes[v].prev[k] = n}) >= 2

\* C5: during backward(root) no rule is invoked twice, only rules of nodes
\* reachable from root are invoked, a rule is invoked only after the rule of
\* every reachable node that adds into its node's gradient (the rule of a
\* tanh node adds into the operand of tanh, which is not a recorded parent of
\* it), and when backward returns every reachable node's rule has been
\* invoked.
C5_OnceInOrder ==
    (root # 0) =>
        LET reach == ReachSet(nodes, {root}) IN
        /\ \A j, k \in 1..Len(invoked) : invoked[j] = invoked[k] => j = k
        /\ \A k \in 1..Len(invoked) : invoked[k] \in reach
        /\ \A k \in 1..Len(invoked) : \A v \in reach :
             (\E e \in 1..Len(RuleTargets(nodes, v)) :
                 RuleTargets(nodes, v)[e].to = invoked[k])
             => \E j \in 1..(k - 1) : invoked[j] = v
        /\ pc = "idle" => {invoked[k] : k \in 1..Len(invoked)} = reach

\* backward has returned on a graph with a tanh node whose operand has a
\* second consumer
C5_Witness ==
    /\ PassDone
    /\ \E t \in ReachSet(nodes, {root}) :
         /\ nodes[t].op = "tanh"
         /\ \E v \in ReachSet(nodes, {root}) :
              /\ v # t
              /\ v \in Held
              /\ \E k \in 1..Len(nodes[v].prev) : nodes[v].prev[k] = nodes[t].backward.a

\* C8: Neuron::call with as many inputs as weights does not panic and builds
\* one product per input; with any other number of inputs it panics, having
\* built no node and returned no Value.
C8_Arity ==
    /\ last.op = "call" =>
         IF Len(last.arg) = Len(net[1][1].weights)
         THEN /\ ~panicked
              /\ Len(DotTerms(nodes, nodes[nodes[held[Len(held)]].backward.a].prev[1]))
                   = Len(last.arg)
         ELSE panicked
    /\ panicked =>
         /\ last.op = "call"
         /\ \A n \in 1..Len(nodes) : nodes[n].prev = <<>> /\ nodes[n].op = ""
         /\ Len(held) = used.leaves

\* a call with one input too few on a neuron of two weights has panicked
C8_Witness ==
    /\ panicked
    /\ last.op = "call"
    /\ Len(last.arg) = 1
    /\ Len(net[1][1].weights) = 2

RECURSIVE PathSumByLengthP(_, _, _, _), PathSumByLengthInP(_, _, _, _)
\* the sum, over the paths from r to n made of the edges, of the product of
\* the local derivatives along the path times (the length of the path + 1),
\* as a number of 0 .. P-1; len is the length of the path walked so far
PathSumByLengthP(edges, r, n, len) ==
    IF n = r THEN len + 1
    ELSE PathSumByLengthInP(edges, r, {e \in edges : e.to = n}, len)

PathSumByLengthInP(edges, r, in, len) ==
    IF in = {} THEN 0
    ELSE LET e == CHOOSE e \in in : TRUE
         IN (e.by * PathSumByLengthP(edges, r, e.from, len + 1)
             + PathSumByLengthInP(edges, r, in \ {e}, len)) % P

\* that sum, as the gradients are written
PathSumByLength(edges, r, n) == Norm(PathSumByLengthP(edges, r, n, 0))

\* every path from r to n made of the edges is a single edge
OnlyDirect(edges, r, n) == \A e \in edges : e.to = n => e.from = r

\* the second of two backward(root) in a row has returned; start tells what
\* the client did to the gradients in between
SecondPassDone(start) ==
    pc = "idle" /\ track.done /\ track.passNo = 2 /\ track.start = start

Leaves(h, i) == {n \in TopoSet(h, i) \ {i} : h[n].prev = <<>>}

\* C6 (as stated): after backward(root) twice in a row with nothing zeroed,
\* every reachable leaf whose single-pass gradient is not 0 holds a gradient
\* different from the single-pass gradient.
C6_DiffersFromSinglePass ==
    SecondPassDone("kept") =>
        \A n \in Leaves(nodes, root) :
            track.snap[n] # 0 => nodes[n].grad # track.snap[n]

\* C6 (amended): after backward(root) twice in a row with nothing zeroed, the
\* gradients of the nodes in the middle are not reset either, so every
\* reachable node other than root holds the sum over the rule paths from root
\* of (length of the path + 1) times the product of the local derivatives:
\* twice the single-pass gradient for a node that only root consumes, and
\* more weight on longer paths otherwise.
C6_TwoPasses ==
    SecondPassDone("kept") =>
        LET reach == TopoSet(nodes, root)
            rules == RuleEdges(nodes, reach)
        IN /\ nodes[root].grad = 1
           /\ \A n \in reach \ {root} :
                /\ nodes[n].grad = PathSumByLength(rules, root, n)
                /\ OnlyDirect(rules, root, n) =>
                     nodes[n].grad = FMul(2, track.snap[n])

\* two passes in a row have left a leaf under a node in the middle with a
\* gradient that is neither the single-pass gradient nor twice it
C6_Witness ==
    /\ SecondPassDone("kept")
    /\ \E n \in Leaves(nodes, root) :
         /\ track.snap[n] # 0
         /\ nodes[n].grad # track.snap[n]
         /\ nodes[n].grad # FMul(2, track.snap[n])

\* C7 (as stated): if the client zeroes the gradient of every leaf and calls
\* backward(root) again on the same graph, every leaf's gradient equals its
\* gradient after a single backward(root) on the fresh graph.
C7_ZeroLeavesSuffices ==
    (\E s \in {"zero", "leaves"} : SecondPassDone(s)) =>
        \A n \in Leaves(nodes, root) : nodes[n].grad = track.snap[n]

\* C7 (amended): if the client zeroes the gradient of every node reachable
\* from root, the nodes in the middle as well as the leaves, and calls
\* backward(root) again on the same graph, every node's gradient equals its
\* gradient after a single backward(root) on the fresh graph.
C7_ZeroAllSuffices ==
    SecondPassDone("zero") =>
        \A n \in TopoSet(nodes, root) : nodes[n].grad = track.snap[n]

\* a second pass after zeroing every node of a graph with a node in the
\* middle has given a leaf its single-pass gradient, which is not 0
C7_Witness ==
    /\ SecondPassDone("zero")
    /\ last.op = "rule"
    /\ \E v \in TopoSet(nodes, root) \ {root} : nodes[v].prev # <<>>
    /\ \E n \in Leaves(nodes, root) : nodes[n].grad # 0 /\ nodes[n].grad = track.snap[n]

\* C9: over any sequence of public Value operations, setters included, the
\* parents and the operation tag of an existing node stay as they were at
\* construction; only its value and its gradient change.
C9_ParentsAndOpFixed ==
    [][\A i \in 1..Len(nodes) :
         /\ nodes'[i].prev = nodes[i].prev
         /\ nodes'[i].op = nodes[i].op]_vars

\* backward(loss) of the current iteration has just returned
AfterTrainBackward == train.phase = "update" /\ pc = "idle"

\* C10: in every iteration of the training loop, right after backward(loss)
\* the gradient of each parameter is the single-pass derivative of that
\* iteration's loss by the parameter (the chain-rule sum over the paths from
\* that loss), with nothing left over from an earlier iteration's graph or
\* backward pass.
C10_FreshGradients ==
    AfterTrainBackward =>
        LET reach == TopoSet(nodes, train.loss)
            rules == RuleEdges(nodes, reach)
            parents == ParentEdges(nodes, reach)
            ps == Parameters(net)
        IN \A k \in 1..Len(ps) :
              /\ nodes[ps[k]].grad = PathSum(rules, train.loss, ps[k])
              /\ nodes[ps[k]].grad = PathSum(parents, train.loss, ps[k])

\* the second iteration's backward has returned; a parameter that the first
\* iteration moved has a gradient that is not 0
C10_Witness ==
    /\ AfterTrainBackward
    /\ train.iter = 2
    /\ \E k \in 1..Len(Parameters(net)) :
         /\ nodes[Parameters(net)[k]].data \notin ParamVals
         /\ nodes[Parameters(net)[k]].grad # 0

RECURSIVE Within(_, _, _)
\* the nodes reachable from the nodes of S through recorded parents without
\* entering stop
Within(h, S, stop) ==
    LET more == S \cup (UNION {{h[n].prev[k] : k \in 1..Len(h[n].prev)} : n \in S}
                          \ {stop})
    IN IF more = S THEN S ELSE Within(h, more, stop)

\* the operand a of t = a.tanh(): t = num / den, num = exp(2.0 * a) - 1.0
TanhOperand(h, t) == h[h[h[h[t].prev[1]].prev[1]].prev[1]].prev[2]

\* the nodes tanh built to compute the value of t: 2.0 * a, its exponential,
\* the sums with -1.0 and 1.0, the reciprocal, and the lifted scalars
Expansion(h, t) == Within(h, {t}, TanhOperand(h, t)) \ {t}

\* (1 - t.data^2) * t.grad
ClosedForm(h, t) == FMul(FAdd(1, -FPow(h[t].data, 2)), h[t].grad)

\* the state part of C11, for the tanh node t
OnePath(t) ==
    LET a == TanhOperand(nodes, t) IN
    /\ nodes[t].backward = [kind |-> "tanh", v |-> t, a |-> a, b |-> 0]
    /\ \A e \in Expansion(nodes, t) : nodes[e].grad = 0
    /\ \A j, k \in 1..Len(invoked) :
         (invoked[j] = t /\ invoked[k] = t) => j = k
    /\ (PassDone /\ root = t) =>
         /\ \E k \in 1..Len(invoked) : invoked[k] = t
         /\ nodes[a].grad = ClosedForm(nodes, t)

\* C11: for t = a.tanh() only one backward path is active. The rule bound to
\* t is the closed form over t and a; in a backward pass it runs once and adds
\* (1 - t.data^2) * t.grad to a.grad and nothing to any other gradient. The
\* nodes of the expansion that computes the value (2.0 * a, exp, the sums
\* with -1.0 and 1.0, the reciprocal) have gradient 0 in every state before,
\* during and after the pass, and a step that runs the rule of one of them
\* changes no gradient, so after backward on t itself a.grad is exactly
\* (1 - t.data^2) * 1.
C11_TanhOnePath ==
    [][\A t \in 1..Len(nodes) : nodes[t].op = "tanh" =>
         /\ OnePath(t)'
         /\ RuleRan(t) =>
              \A n \in 1..Len(nodes) :
                 nodes'[n].grad =
                     FAdd(nodes[n].grad,
                          IF n = TanhOperand(nodes, t)
                          THEN ClosedForm(nodes, t) ELSE 0)
         /\ \A e \in Expansion(nodes, t) : RuleRan(e) =>
              /\ nodes[e].grad = 0
              /\ \A n \in 1..Len(nodes) : nodes'[n].grad = nodes[n].grad]_vars

\* a = 2.0; t = a.tanh(); t.backward() has returned: the rules of t and of the
\* twelve nodes of its expansion have all run, the expansion's gradients are 0
\* and a.grad is 1 - t.data^2, which is not 0
C11_Witness ==
    /\ PassDone
    /\ root # 0
    /\ nodes[root].op = "tanh"
    /\ LET a == TanhOperand(nodes, root)
           ex == Expansion(nodes, root)
       IN /\ nodes[a].prev = <<>>
          /\ nodes[a].data = 2
          /\ Cardinality(ex) = 12
          /\ \A e \in ex : nodes[e].grad = 0
          /\ \A e \in ex : \E k \in 1..Len(invoked) : invoked[k] = e
          /\ nodes[a].grad = FAdd(1, -FPow(nodes[root].data, 2))
          /\ nodes[a].grad # 0

=============================================================================
